---- MODULE Spec2Model ----
(***************************************************************************)
(* Burst detection of tethne/analyze/corpus.py: the event-sequence         *)
(* builder and aggregator (feature_burstness), the burst state decoder     *)
(* (_forward), the fan-out coordinator (burstness and                      *)
(* feature_burstness_wrapper) and the sigma calculator (sigma).            *)
(*                                                                         *)
(* Numbers.  The source computes with mpmath reals.  Here a gap is an      *)
(* exact rational <<num, den>>, and a cost is a fixed-point integer in     *)
(* units of 1/Scale (natural logarithm by its series).  A cost table cell  *)
(* is one of: a finite cost, +infinity, or a complex number (mp.ln of a    *)
(* negative real is an mpc, which supports no ordering).                   *)
(***************************************************************************)
EXTENDS Integers, Sequences, FiniteSets, TLC

\* ------------------------------------------------------------- bounds
MaxFeatures == 4
NumYears == 3
MaxEvents == 2
MaxK == 2
MaxWorkers == 2
\* sigma: the nodes of the graph collection
SigmaNodes == 2
\* a direct call of feature_burstness: the feature's occurrences, and the
\* dates an earlier call has left on the list it is handed
FeatureEvents == 3
PriorDates == 1

\* ---------------------------------------------------------- arithmetic
Scale == 100 * 1000

Abs(a) == IF a < 0 THEN -a ELSE a

RECURSIVE Gcd(_, _)
Gcd(a, b) == IF b = 0 THEN a ELSE Gcd(b, a % b)

\* a rational <<num, den>> in lowest terms, den > 0
Rat(num, den) ==
  LET g == Gcd(Abs(num), Abs(den))
      sg == IF den < 0 THEN -1 ELSE 1
  IN  <<sg * (num \div g), sg * (den \div g)>>

RatAdd(p, q) == Rat(p[1] * q[2] + q[1] * p[2], p[2] * q[2])

RatMulInt(p, m) == Rat(p[1] * m, p[2])

RECURSIVE SumRat(_)
SumRat(X) == IF X = <<>> THEN <<0, 1>> ELSE RatAdd(Head(X), SumRat(Tail(X)))

RECURSIVE SumInt(_)
SumInt(xs) == IF xs = <<>> THEN 0 ELSE Head(xs) + SumInt(Tail(xs))

RECURSIVE Pow(_, _)
Pow(b, e) == IF e = 0 THEN 1 ELSE b * Pow(b, e - 1)

\* 2 * atanh(z) = 2 (z + z^3/3 + z^5/5 + ...), z and the result in 1/Scale
LnSeries(z) ==
  LET z2 == (z * z) \div Scale
      z3 == (z * z2) \div Scale
      z5 == (z3 * z2) \div Scale
      z7 == (z5 * z2) \div Scale
      z9 == (z7 * z2) \div Scale
  IN  2 * (z + z3 \div 3 + z5 \div 5 + z7 \div 7 + z9 \div 9)

RECURSIVE Log2Floor(_)
Log2Floor(m) == IF m < 2 THEN 0 ELSE 1 + Log2Floor(m \div 2)

\* Scale * ln(m) for an integer m >= 1: m = 2^e * y with 1 <= y < 2
LnInt(m) ==
  LET e == Log2Floor(m)
      p == Pow(2, e)
  IN  e * LnSeries(Scale \div 3) + LnSeries(((m - p) * Scale) \div (m + p))

\* Scale * ln(p) for a rational p > 0
LnRat(p) == LnInt(p[1]) - LnInt(p[2])


\* ------------------------------------------------- program constants
\* feature_burstness(..., s=1.1, gamma=1.): s is kept in tenths
DefaultS == 11
DefaultGamma == 1
\* burstness hands every worker package the literals 1.1 and 1.
WorkerS == 11
WorkerGamma == 1
\* _forward([x*100 for x in X_], ...)
GapScale == 100

\* -------------------------------------------------------------- corpus
Years == 1..NumYears

\* dates = [min(corpus.indices['date'].keys()) - 1]    # Pad start.
PadDate == (CHOOSE y \in Years : \A z \in Years : y <= z) - 1

\* One occurrence of feature f in year y, as a number (so that a corpus,
\* a bag of occurrences, is a sorted sequence).
Occurrence(f, y) == (f - 1) * NumYears + y

\* corpus.feature_distribution(featureset_name, f): the (year, count)
\* pairs, one per year of the corpus, in ascending order.
FeatureDistribution(corp, f) ==
  [y \in Years |->
     <<y, Cardinality({i \in 1..Len(corp) : corp[i] = Occurrence(f, y)})>>]

\* ------------------------------------------------- cost table cells
Fin(v) == [kind |-> "fin", v |-> v]
Inf == [kind |-> "inf", v |-> 0]
Cpx == [kind |-> "cpx", v |-> 0]

\* a + c for a cell a and a real c
AddReal(a, c) == IF a.kind = "fin" THEN Fin(a.v + c) ELSE a

\* a < b on mpf values (finite or +inf)
Less(a, b) == a.kind = "fin" /\ (b.kind = "inf" \/ a.v < b.v)

\* An ordering comparison is made (the list has two or more elements)
\* and one operand is an mpc: Python 3 raises TypeError.  A list of one
\* element is never compared.
CompareRaises(cells) ==
  Len(cells) >= 2 /\ \E i \in 1..Len(cells) : cells[i].kind = "cpx"

\* tethne.utilities.argmin: the first index (from 0) of a minimum, or
\* -1 for "raises" (an empty list).  Only called when no comparison
\* raises.
Argmin(cells) ==
  IF cells = <<>> THEN -1
  ELSE (CHOOSE i \in 1..Len(cells) :
          /\ \A m \in 1..Len(cells) : ~Less(cells[m], cells[i])
          /\ \A m \in 1..(i - 1) : Less(cells[i], cells[m])) - 1

\* Python's min(list) for a non-empty list whose comparisons do not raise
MinCell(cells) == cells[Argmin(cells) + 1]

\* tethne.utilities.mean of a non-empty list of states, as a rational
Mean(values) == Rat(SumInt(values), Len(values))

\* ------------------------------------------------------------ _forward
\* alpha(j) * x = (n/T) * s^j * x, in 1/Scale, for T > 0
AlphaTimes(n, T, sT, j, x) ==
  LET r == Rat(x[1] * T[2], x[2] * T[1])
      sPow == (Scale * Pow(sT, j)) \div Pow(10, j)
  IN  (n * sPow * r[1]) \div r[2]

\* -ln(alpha(j)), in 1/Scale, for T > 0
NegLnAlpha(n, T, sT, j) ==
  LnRat(T) - LnInt(n) - j * (LnInt(sT) - LnInt(10))

\* tau(i, j)
Tau(n, gamma, i, j) == IF j > i THEN (j - i) * gamma * LnInt(n) ELSE 0

\* C(j, t), reading the table as it stands when the cell is computed.
\* Rows and columns are numbered from 0 as in the source; the sequences
\* holding them from 1.
C(C_values, X, sT, gamma, k, j, t) ==
  LET n == Len(X)
      T == SumRat(X)
      terms == [l \in 1..k |-> AddReal(C_values[l][t], Tau(n, gamma, l - 1, j))]
  IN  IF j = 0 /\ t = 0 THEN Fin(0)
      ELSE IF t = 0 THEN Inf
      ELSE IF CompareRaises(terms) THEN Inf      \* min() raised: except
      ELSE IF T[1] = 0 THEN Inf                  \* n/T raised: except
      ELSE IF T[1] < 0 THEN Cpx                  \* mp.ln of a negative real
      ELSE AddReal(MinCell(terms),
                   NegLnAlpha(n, T, sT, j) + AlphaTimes(n, T, sT, j, X[t + 1]))

\* for j in range(k): for t in range(len(X)): C_values[j][t] = C(j,t)
RECURSIVE FillTable(_, _, _, _, _, _, _)
FillTable(C_values, X, sT, gamma, k, j, t) ==
  IF j >= k THEN C_values
  ELSE IF t >= Len(X) THEN FillTable(C_values, X, sT, gamma, k, j + 1, 0)
  ELSE FillTable([C_values EXCEPT ![j + 1][t + 1] = C(C_values, X, sT, gamma, k, j, t)],
                 X, sT, gamma, k, j, t + 1)

NoStates == [ok |-> FALSE, states |-> <<>>]

\* range(k)'s length
RangeLen(k) == IF k < 0 THEN 0 ELSE k

\* C_values once both loops have run (lines 93-101)
CostTable(X, sT, gamma, k) ==
  FillTable([j \in 1..RangeLen(k) |-> [t \in 1..Len(X) |-> Fin(0)]],
            X, sT, gamma, RangeLen(k), 0, 0)

\* [c[t] for c in C_values]
Column(C_values, t) == [j \in 1..Len(C_values) |-> C_values[j][t]]

\* _forward returning every state one too high (states numbered from 1)
ForwardOneBased(X, sT, gamma, k) ==
  LET C_values == CostTable(X, sT, gamma, k)
  IN  IF RangeLen(k) = 0 \/ \E t \in 1..Len(X) : CompareRaises(Column(C_values, t))
      THEN NoStates
      ELSE [ok |-> TRUE,
            states |-> [t \in 1..Len(X) |-> Argmin(Column(C_values, t)) + 1]]

\* _forward(X, s, gamma, k): the state sequence, or None when argmin
\* raises (an empty column, or a comparison with an mpc)
Forward(X, sT, gamma, k) ==
  LET n == Len(X)
      C_values == CostTable(X, sT, gamma, k)
      column(t) == Column(C_values, t)
  IN  IF RangeLen(k) = 0 \/ \E t \in 1..n : CompareRaises(column(t))
      THEN NoStates
      ELSE [ok |-> TRUE, states |-> [t \in 1..n |-> Argmin(column(t))]]


\* --------------------------------------------------- feature_burstness
Last(seq) == seq[Len(seq)]

Repeat(x, n) == [i \in 1..n |-> x]

\* the builder without the case of a date that follows the previous one:
\* the first of N > 1 occurrences is always charged the full gap
RECURSIVE BuildGapsFullGap(_, _, _)
BuildGapsFullGap(dist, X_, dates) ==
  IF dist = <<>> THEN [X_ |-> X_, dates |-> dates]
  ELSE LET year == Head(dist)[1]
           N == Head(dist)[2]
       IN  IF N = 0 THEN BuildGapsFullGap(Tail(dist), X_, dates)
           ELSE BuildGapsFullGap(Tail(dist),
                  X_ \o <<Rat(year - Last(dates), 1)>> \o Repeat(Rat(1, N - 1), N - 1),
                  dates \o Repeat(year, N))

\* for year, N in zip(years, values): ...  appending to X_ and to dates
RECURSIVE BuildGaps(_, _, _)
BuildGaps(dist, X_, dates) ==
  IF dist = <<>> THEN [X_ |-> X_, dates |-> dates]
  ELSE LET year == Head(dist)[1]
           N == Head(dist)[2]
       IN  IF N = 0 THEN BuildGaps(Tail(dist), X_, dates)
           ELSE IF N > 1 /\ year = Last(dates) + 1
             THEN BuildGaps(Tail(dist),
                            X_ \o Repeat(Rat(1, N), N),
                            dates \o Repeat(year, N))
           ELSE IF N > 1
             THEN BuildGaps(Tail(dist),
                            X_ \o <<Rat(year - Last(dates), 1)>> \o Repeat(Rat(1, N - 1), N - 1),
                            dates \o Repeat(year, N))
           ELSE BuildGaps(Tail(dist),
                          X_ \o <<Rat(year - Last(dates), 1)>>,
                          Append(dates, year))

RECURSIVE SortedSeq(_)
SortedSeq(S) ==
  IF S = {} THEN <<>>
  ELSE LET m == CHOOSE x \in S : \A y \in S : x <= y
       IN  <<m>> \o SortedSeq(S \ {m})

\* the sub-sequence of seq at the indices satisfying Keep, in order
RECURSIVE SelectIdx(_, _, _)
SelectIdx(seq, idxs, i) ==
  IF i > Len(seq) THEN <<>>
  ELSE (IF i \in idxs THEN <<seq[i]>> ELSE <<>>) \o SelectIdx(seq, idxs, i + 1)

NoneResult == [ok |-> FALSE, dates |-> <<>>, scores |-> <<>>]

\* Bin by date, normalize, sort, drop the first key (lines 315-327)
Aggregate(X_, dates, st, k, normalize) ==
  LET n == Len(X_)
      A(key) == LET values == SelectIdx(st, {i \in 1..n : dates[i] = key}, 1)
                    m == Mean(values)
                IN  IF normalize THEN Rat(m[1], m[2] * k) ELSE m
      D == SortedSeq({dates[i] : i \in 1..n})
  IN  [ok |-> TRUE, dates |-> Tail(D), scores |-> [i \in 1..(Len(D) - 1) |-> A(D[i + 1])]]

\* [x*100 for x in X_]
Scaled(X_) == [i \in 1..Len(X_) |-> RatMulInt(X_[i], GapScale)]

\* feature_burstness with the feature's distribution and the dates list
\* it is handed: what it returns (result), the list as it leaves it
\* (dates), and its locals X_ and st
FeatureBurstness(dist, dates0, k, normalize, sT, gamma) ==
  LET built == BuildGaps(dist, <<Rat(1, 1)>>, dates0)
      X_ == built.X_
      st == Forward(Scaled(X_), sT, gamma, k)
  IN  [dates |-> built.dates, X_ |-> X_, st |-> st,
       result |-> IF ~st.ok THEN NoneResult
                  ELSE Aggregate(X_, built.dates, st.states, k, normalize)]


\* ------------------------------------------------------------ burstness
VARIABLES
  corpus,      \* the occurrences of the corpus, a sorted sequence
  features,    \* burstness(features=...): the explicit feature list
  k, normalize, s, gamma, workers,   \* the call's parameters (s in tenths)
  pc,          \* burstness: "call", "pool" (workers running), "returned";
               \* a direct feature_burstness call: "feature_call",
               \* "feature_returned"
  params,      \* the packages handed to p.map, one per range index
  wdates,      \* each package's dates list, in the worker that holds it
  wn,          \* each package's loop counter n
  wB,          \* each package's partial map B
  Bs,          \* the packages whose map p.map has received
  B,           \* the map burstness returns
  calls,       \* per feature, the locals of its feature_burstness call
  G,           \* sigma's GraphCollection: slice key -> the slice's nodes
  Sigma,       \* sigma's Sigma: slice key -> (node -> sigma value)
  sigma_pc     \* "idle", "call", "returned", "raised"

vars == <<corpus, features, k, normalize, s, gamma, workers, pc, params,
          wdates, wn, wB, Bs, B, calls, G, Sigma, sigma_pc>>

sigmaVars == <<G, Sigma, sigma_pc>>

inputs == <<corpus, features, k, normalize, s, gamma, workers>>

EmptyMap == <<>>

RangeOf(seq) == {seq[i] : i \in 1..Len(seq)}

\* seq[a:b], Python's slice (indices from 0, clipped to the list)
Slice(seq, a, b) ==
  LET hi == IF b < Len(seq) THEN b ELSE Len(seq)
  IN  [i \in 1..(IF hi > a THEN hi - a ELSE 0) |-> seq[a + i]]

\* B.update(tmp_B)
Update(B0, tmp_B) ==
  [f \in DOMAIN B0 \cup DOMAIN tmp_B |->
     IF f \in DOMAIN tmp_B THEN tmp_B[f] ELSE B0[f]]

\* the locals of a call that the claims speak of
CallRecord(r, dates0, k0, sT, gamma0) ==
  [X_ |-> r.X_, st |-> r.st, dates0 |-> dates0, dates |-> r.dates,
   result |-> r.result, k |-> k0, s |-> sT, gamma |-> gamma0]

\* len_per_worker = int(len(features)/workers)
LenPerWorker(fs, W) == Len(fs) \div W

\* the feature range of package i (0 <= i <= workers)
Chunk(fs, W, i) ==
  Slice(fs, i * LenPerWorker(fs, W), (i + 1) * LenPerWorker(fs, W))

SortedCorpora(n) ==
  {c \in UNION {[1..m -> 1..(n * NumYears)] : m \in 0..MaxEvents} :
     \A i \in 1..(Len(c) - 1) : c[i] <= c[i + 1]}

\* burstness is called with an explicit, non-empty feature list (an empty
\* one makes it ask the corpus for its top features instead).
Init ==
  /\ \E n \in 1..MaxFeatures :
       /\ features = [i \in 1..n |-> i]
       /\ corpus \in SortedCorpora(n)
  /\ k \in 0..MaxK
  /\ normalize \in BOOLEAN
  /\ s \in {DefaultS - 1, DefaultS}
  /\ gamma \in {0, DefaultGamma}
  /\ workers \in 1..MaxWorkers
  /\ pc = "call"
  /\ params = <<>>
  /\ wdates = <<>>
  /\ wn = <<>>
  /\ wB = <<>>
  /\ Bs = {}
  /\ B = EmptyMap
  /\ calls = EmptyMap
  /\ G = EmptyMap
  /\ Sigma = EmptyMap
  /\ sigma_pc = "idle"

\* feature_burstness(corpus, featureset_name, feature, k=k,
\* normalize=normalize, **kwargs): dates is None, so the call builds its
\* own list
FeatureBurstnessOfCorpus(corp, f, k0, normalize0, sT, gamma0) ==
  FeatureBurstness(FeatureDistribution(corp, f), <<PadDate>>,
                   k0, normalize0, sT, gamma0)

\* workers == 1: B = {feature: feature_burstness(corpus, ...) for feature
\* in features}
SinglePass(corp, fs, k0, normalize0, sT, gamma0) ==
  [f \in RangeOf(fs) |->
     FeatureBurstnessOfCorpus(corp, f, k0, normalize0, sT, gamma0).result]

BurstnessSequential ==
  /\ pc = "call"
  /\ workers = 1
  /\ B' = SinglePass(corpus, features, k, normalize, s, gamma)
  /\ calls' = [f \in RangeOf(features) |->
                 CallRecord(FeatureBurstnessOfCorpus(corpus, f, k, normalize, s, gamma),
                            <<PadDate>>, k, s, gamma)]
  /\ pc' = "returned"
  /\ UNCHANGED <<inputs, params, wdates, wn, wB, Bs, sigmaVars>>

\* workers != 1: build the workers + 1 packages and start the pool
BurstnessScatter ==
  /\ pc = "call"
  /\ workers # 1
  /\ params' = [i \in 1..(workers + 1) |->
                  LET fs == Chunk(features, workers, i - 1)
                  IN  [nr |-> i - 1,
                       feature_distributions |->
                         [m \in 1..Len(fs) |-> FeatureDistribution(corpus, fs[m])],
                       features |-> fs,
                       k |-> k, normalize |-> normalize,
                       s |-> WorkerS, gamma |-> WorkerGamma]]
  /\ wdates' = [i \in 1..(workers + 1) |-> <<PadDate>>]
  /\ wn' = [i \in 1..(workers + 1) |-> 0]
  /\ wB' = [i \in 1..(workers + 1) |-> EmptyMap]
  /\ pc' = "pool"
  /\ UNCHANGED <<inputs, Bs, B, calls, sigmaVars>>

\* one iteration of feature_burstness_wrapper's loop on package i; the
\* dates list is the package's own copy (p.map pickles each package),
\* shared by the features of the package
WorkerFeature(i) ==
  /\ pc = "pool"
  /\ i \notin Bs
  /\ wn[i] < Len(params[i].features)
  /\ LET p == params[i]
         feature == p.features[wn[i] + 1]
         r == FeatureBurstness(p.feature_distributions[wn[i] + 1], wdates[i],
                               p.k, p.normalize, p.s, p.gamma)
     IN  /\ wB' = [wB EXCEPT ![i] = Update(@, [f \in {feature} |-> r.result])]
         /\ wdates' = [wdates EXCEPT ![i] = r.dates]
         /\ calls' = Update(calls, [f \in {feature} |-> CallRecord(r, wdates[i], p.k, p.s, p.gamma)])
  /\ wn' = [wn EXCEPT ![i] = @ + 1]
  /\ UNCHANGED <<inputs, pc, params, Bs, B, sigmaVars>>

\* feature_burstness_wrapper returns B for package i
WorkerReturn(i) ==
  /\ pc = "pool"
  /\ i \notin Bs
  /\ wn[i] = Len(params[i].features)
  /\ Bs' = Bs \cup {i}
  /\ UNCHANGED <<inputs, pc, params, wdates, wn, wB, B, calls, sigmaVars>>

RECURSIVE MergeFrom(_, _, _)
MergeFrom(B0, maps, i) ==
  IF i > Len(maps) THEN B0 ELSE MergeFrom(Update(B0, maps[i]), maps, i + 1)

\* a gather that does not wait for p.map: it merges the maps as they
\* stand once one package has returned
BurstnessGatherEarly ==
  /\ pc = "pool"
  /\ Bs # {}
  /\ B' = MergeFrom(EmptyMap, wB, 1)
  /\ pc' = "returned"
  /\ UNCHANGED <<inputs, params, wdates, wn, wB, Bs, calls, sigmaVars>>

\* p.map has every package's map: B = {}; for tmp_B in Bs: B.update(tmp_B)
BurstnessGather ==
  /\ pc = "pool"
  /\ Bs = DOMAIN params
  /\ B' = MergeFrom(EmptyMap, wB, 1)
  /\ pc' = "returned"
  /\ UNCHANGED <<inputs, params, wdates, wn, wB, Bs, calls, sigmaVars>>

Next ==
  \/ BurstnessSequential
  \/ BurstnessScatter
  \/ \E i \in DOMAIN params : WorkerFeature(i)
  \/ \E i \in DOMAIN params : WorkerReturn(i)
  \/ BurstnessGather

Spec == Init /\ [][Next]_vars

\* ------------------------------------------------- claims on burstness
\* the years in which feature f occurs, ascending
OccurrenceYears(f) ==
  SortedSeq({y \in Years : FeatureDistribution(corpus, f)[y][2] > 0})

\* the dates appended by a call: the date of each of its events after
\* the padding gap
EventDates(c) == SubSeq(c.dates, Len(c.dates0) + 1, Len(c.dates))

\* C1: with workers > 1 burstness returns the map that workers = 1
\* returns on the same corpus, features and parameters (same keys, same
\* (dates, scores) per feature).
FanOutEquivalence ==
  (pc = "returned" /\ workers > 1) =>
    B = SinglePass(corpus, features, k, normalize, s, gamma)

\* C2: the workers + 1 chunks hold every feature of the list exactly
\* once, and the merged map's keys are the features of the list.
PartitionCoverage ==
  (pc \in {"pool", "returned"} /\ workers > 1) =>
    /\ \A f \in RangeOf(features) :
         Cardinality({im \in (DOMAIN params) \X (1..Len(features)) :
                        /\ im[2] <= Len(params[im[1]].features)
                        /\ params[im[1]].features[im[2]] = f}) = 1
    /\ pc = "returned" => DOMAIN B = RangeOf(features)

\* C3: a worker's dates list stays as it was handed over, and every
\* feature a worker has processed has the series feature_burstness
\* computes for that feature alone.
DatesListReadOnly ==
  \A i \in DOMAIN params :
    /\ wdates[i] = <<PadDate>>
    /\ \A f \in DOMAIN wB[i] :
         wB[i][f] = FeatureBurstnessOfCorpus(corpus, f, params[i].k,
                      params[i].normalize, params[i].s, params[i].gamma).result

\* C4: a feature whose decode failed (with k >= 1) is no key of the
\* returned map, and every feature whose decode succeeded is one.
FailedDecodeOmitted ==
  (pc = "returned" /\ k >= 1) =>
    \A f \in DOMAIN calls :
      IF calls[f].st.ok THEN f \in DOMAIN B /\ B[f].ok
      ELSE f \notin DOMAIN B

\* C5: with k < 1 or s <= 1 (s is in tenths) burstness returns nothing
\* (it raises).
ConfigFailureFatal ==
  (k < 1 \/ s <= 10) => pc # "returned"

\* C6: a decode whose cost table has a column of infinite cells only
\* returns no state sequence.
InfiniteColumnFails ==
  \A f \in DOMAIN calls :
    LET c == calls[f]
        C_values == CostTable(Scaled(c.X_), c.s, c.gamma, c.k)
    IN  (/\ c.k >= 1
         /\ \E t \in 1..Len(c.X_) :
              \A j \in 1..c.k : C_values[j][t].kind = "inf")
        => ~c.st.ok

\* C7: with k = 1 every decode succeeds with all states 0, and every
\* score of every returned series is 0, normalized or not.
KOneAllZero ==
  k = 1 =>
    \A f \in DOMAIN calls :
      /\ calls[f].st.ok
      /\ \A t \in 1..Len(calls[f].st.states) : calls[f].st.states[t] = 0
      /\ calls[f].result.ok
      /\ \A i \in 1..Len(calls[f].result.scores) :
           calls[f].result.scores[i] = <<0, 1>>

\* C7's case: a call with k = 1 and its own dates list, on a feature
\* with several occurrences in one year, has returned a series of two
\* dates
KOneWitness ==
  /\ k = 1
  /\ \E f \in DOMAIN calls :
       /\ calls[f].dates0 = <<PadDate>>
       /\ Len(calls[f].result.dates) >= 2
       /\ Len(calls[f].X_) >= 4

\* C8: the dates returned for a feature are the years in which it
\* occurs, each once, ascending (so never the padding date).
ReturnedDatesAreOccurrenceYears ==
  \A f \in DOMAIN calls :
    calls[f].result.ok => calls[f].result.dates = OccurrenceYears(f)

\* C9: the score returned for a date is the mean of the states decoded
\* for the events of that date (over k when normalizing), within
\* [0, (k-1)/k] or [0, k-1].
ScoreIsMeanOfDateStates ==
  \A f \in DOMAIN calls :
    LET c == calls[f]
        res == c.result
        ev(d) == {m \in 2..Len(c.X_) : EventDates(c)[m - 1] = d}
        sum(d) == SumInt(SelectIdx(c.st.states, ev(d), 1))
    IN  res.ok =>
          \A i \in 1..Len(res.dates) :
            /\ ev(res.dates[i]) # {}
            /\ res.scores[i] =
                 Rat(sum(res.dates[i]),
                     Cardinality(ev(res.dates[i])) * (IF normalize THEN c.k ELSE 1))
            /\ res.scores[i][1] >= 0
            /\ IF normalize
                 THEN res.scores[i][1] * c.k <= (c.k - 1) * res.scores[i][2]
                 ELSE res.scores[i][1] <= (c.k - 1) * res.scores[i][2]

\* ------------------------------------ feature_burstness, called directly
\* The caller hands feature_burstness the distribution of one feature and
\* a dates list: the fresh list [pad], or that list as earlier calls on
\* other features have left it (as in feature_burstness_wrapper's loop).
InitFeature ==
  /\ features = <<1>>
  /\ corpus \in {c \in UNION {[1..m -> Years] : m \in 0..FeatureEvents} :
                   \A i \in 1..(Len(c) - 1) : c[i] <= c[i + 1]}
  /\ k \in 0..MaxK
  /\ normalize \in BOOLEAN
  /\ s \in {DefaultS - 1, DefaultS}
  /\ gamma \in {0, DefaultGamma}
  /\ workers = 1
  /\ pc = "feature_call"
  /\ params = <<>>
  /\ \E prior \in UNION {[1..m -> Years] : m \in 0..PriorDates} :
       wdates = <<<<PadDate>> \o prior>>
  /\ wn = <<>>
  /\ wB = <<>>
  /\ Bs = {}
  /\ B = EmptyMap
  /\ calls = EmptyMap
  /\ G = EmptyMap
  /\ Sigma = EmptyMap
  /\ sigma_pc = "idle"

FeatureBurstnessCall ==
  /\ pc = "feature_call"
  /\ LET r == FeatureBurstness(FeatureDistribution(corpus, 1), wdates[1],
                               k, normalize, s, gamma)
     IN  /\ calls' = [f \in {1} |-> CallRecord(r, wdates[1], k, s, gamma)]
         /\ wdates' = <<r.dates>>
  /\ pc' = "feature_returned"
  /\ UNCHANGED <<inputs, params, wn, wB, Bs, B, sigmaVars>>

NextFeature == FeatureBurstnessCall

SpecFeature == InitFeature /\ [][NextFeature]_vars

\* ---------------------------------------------------------------- sigma

\* G.node_lookup[n_]: the integer index of the node labelled n_
NodeLookup(n_) == n_ - 1

\* dict(list(zip(*burst))) for a burst series
BurstDict(burst) ==
  [d \in RangeOf(burst.dates) |->
     burst.scores[CHOOSE i \in 1..Len(burst.dates) : burst.dates[i] = d]]

\* ((centrality[n] + 1.) ** burst[key]) - 1., kept as its two operands;
\* the centrality of node n in slice key is nx.betweenness_centrality's
SigmaValue(key, n, burst) == [centrality |-> <<key, n>>, burst |-> burst]

\* zip(*burst) raises for a feature whose burst is None
SigmaRaises(G0, B0) == G0 # EmptyMap /\ \E n_ \in DOMAIN B0 : ~B0[n_].ok

\* the dict sigma built for one slice (lines 398-411)
SliceSigma(key, graph, B0) ==
  LET hit == {n_ \in DOMAIN B0 :
                NodeLookup(n_) \in graph /\ key \in DOMAIN BurstDict(B0[n_])}
  IN  [n \in {NodeLookup(n_) : n_ \in hit} |->
         LET n_ == CHOOSE m \in hit : NodeLookup(m) = n
         IN  SigmaValue(key, n, BurstDict(B0[n_])[key])]

\* the burst series burstness returns for a feature: None, or ascending
\* dates with a score each
BurstSeries ==
  {NoneResult} \cup
  {[ok |-> TRUE, dates |-> SortedSeq(S),
    scores |-> [i \in 1..Cardinality(S) |-> Rat(i - 1, Cardinality(S))]] :
     S \in SUBSET Years}

InitSigma ==
  /\ corpus = <<>>
  /\ features = [i \in 1..SigmaNodes |-> i]
  /\ k = MaxK
  /\ normalize = TRUE
  /\ s = DefaultS
  /\ gamma = DefaultGamma
  /\ workers = 1
  /\ pc = "returned"
  /\ params = <<>>
  /\ wdates = <<>>
  /\ wn = <<>>
  /\ wB = <<>>
  /\ Bs = {}
  /\ calls = EmptyMap
  /\ \E fs \in SUBSET RangeOf(features) : fs # {} /\ B \in [fs -> BurstSeries]
  /\ \E keys \in SUBSET Years :
       G \in [keys -> SUBSET {NodeLookup(n_) : n_ \in RangeOf(features)}]
  /\ Sigma = EmptyMap
  /\ sigma_pc = "call"

\* sigma(G, corpus, featureset_name, B=B) with a burst map B given:
\* the loop over the slices (lines 394-415)
SigmaCall ==
  /\ sigma_pc = "call"
  /\ B # EmptyMap
  /\ IF SigmaRaises(G, B)
       THEN sigma_pc' = "raised" /\ Sigma' = EmptyMap
       ELSE /\ sigma_pc' = "returned"
            /\ Sigma' = [key \in DOMAIN G |-> SliceSigma(key, G[key], B)]
  /\ UNCHANGED <<inputs, pc, params, wdates, wn, wB, Bs, B, calls, G>>

NextSigma == SigmaCall

SpecSigma == InitSigma /\ [][NextSigma]_vars

\* C10: sigma ends without an error, and for every slice and every
\* feature of the burst map the slice's sigma holds a value for the
\* feature's node exactly if the node is in the slice's graph and the
\* slice key is a date of the feature's series.
SigmaPresence ==
  sigma_pc # "call" =>
    /\ sigma_pc = "returned"
    /\ \A key \in DOMAIN G : \A n_ \in DOMAIN B :
         NodeLookup(n_) \in DOMAIN Sigma[key]
           <=> (NodeLookup(n_) \in G[key] /\ key \in RangeOf(B[n_].dates))

\* ------------------------------------------------ claims on the decoder
\* C11: for k >= 1 and a gap sequence of positive total, the cost table
\* _forward has filled has C(0,0) = 0, C(j,0) = infinity for j > 0, and
\* for t > 0 every cell C(j,t) is the emission cost of x_t in state j
\* plus the minimum over all k states l of the final C(l,t-1) plus the
\* transition cost from l to j.
CostRecurrence ==
  \A f \in DOMAIN calls :
    LET c == calls[f]
        X == Scaled(c.X_)
        n == Len(X)
        T == SumRat(X)
        C_values == CostTable(X, c.s, c.gamma, c.k)
        best(j, t) ==
          MinCell([l \in 1..c.k |->
                     AddReal(C_values[l][t - 1], Tau(n, c.gamma, l - 1, j - 1))])
        emission(j, t) ==
          NegLnAlpha(n, T, c.s, j - 1) + AlphaTimes(n, T, c.s, j - 1, X[t])
    IN  (c.k >= 1 /\ T[1] > 0) =>
          /\ C_values[1][1] = Fin(0)
          /\ \A j \in 2..c.k : C_values[j][1] = Inf
          /\ \A t \in 2..n : \A j \in 1..c.k :
               C_values[j][t] = AddReal(best(j, t), emission(j, t))

\* ------------------------------------------------ claims on the builder
\* C12: the built sequence starts with the padding gap 1 and has one gap
\* per occurrence after it, 1 + (sum of counts) in all; an entry of count
\* 0 adds nothing; an entry of count N > 0 adds N gaps dated on its date:
\* date - previous date for N = 1; N gaps of 1/N when N > 1 and the date
\* follows the previous date immediately; otherwise date - previous date
\* followed by N - 1 gaps of 1/(N - 1).
BuilderGaps ==
  \A f \in DOMAIN calls :
    LET c == calls[f]
        dist == FeatureDistribution(corpus, f)
        count(e) == dist[e][2]
        before(e) == SumInt([i \in 1..(e - 1) |-> count(i)])
        total == before(Len(dist) + 1)
        earlier(e) == {i \in 1..(e - 1) : count(i) > 0}
        previous(e) ==
          IF earlier(e) = {} THEN Last(c.dates0)
          ELSE dist[CHOOSE i \in earlier(e) : \A m \in earlier(e) : m <= i][1]
        gap(e, m) ==
          LET date == dist[e][1]
              N == count(e)
          IN  IF N = 1 THEN Rat(date - previous(e), 1)
              ELSE IF date = previous(e) + 1 THEN Rat(1, N)
              ELSE IF m = 1 THEN Rat(date - previous(e), 1)
              ELSE Rat(1, N - 1)
    IN  /\ Len(c.X_) = 1 + total
        /\ c.X_[1] = <<1, 1>>
        /\ Len(c.dates) = Len(c.dates0) + total
        /\ SubSeq(c.dates, 1, Len(c.dates0)) = c.dates0
        /\ \A e \in 1..Len(dist) : \A m \in 1..count(e) :
             /\ c.X_[1 + before(e) + m] = gap(e, m)
             /\ c.dates[Len(c.dates0) + before(e) + m] = dist[e][1]

\* C12's case: a call, on its own dates list, has built the gaps of a
\* feature with several occurrences in the year after the padding date,
\* none in the next year and one in a later year
BuilderWitness ==
  /\ pc = "feature_returned"
  /\ \E f \in DOMAIN calls :
       LET dist == FeatureDistribution(corpus, f)
       IN  /\ calls[f].dates0 = <<PadDate>>
           /\ dist[1][2] > 1
           /\ dist[2][2] = 0
           /\ dist[3][2] = 1
           /\ Len(calls[f].X_) = 4

\* C13: for every feature burstness has processed, in either path, the
\* gap sequence handed to the decoder and its date sequence have the
\* same length >= 1, every gap is positive, and the dates are
\* non-decreasing.
EventGapSequenceInvariant ==
  \A f \in DOMAIN calls :
    LET c == calls[f]
    IN  /\ Len(c.X_) >= 1
        /\ Len(c.X_) = Len(c.dates)
        /\ \A i \in 1..Len(c.X_) : c.X_[i][1] > 0
        /\ \A i \in 1..(Len(c.dates) - 1) : c.dates[i] <= c.dates[i + 1]

\* ------------------------------------------------- the pool on its own
\* burstness with workers > 1: the scatter, the packages' loops in every
\* interleaving and completion order, and the gather.  (The pool runs at
\* most `workers` packages at a time; the packages share nothing, so the
\* orders of a pool that runs them all at once include the pool's.)
\* The listed features occur in the years before the corpus's last year.
InitPool ==
  /\ features = [i \in 1..MaxFeatures |-> i]
  /\ corpus \in {c \in SortedCorpora(MaxFeatures) :
                   \A i \in 1..Len(c) : (c[i] - 1) % NumYears < NumYears - 1}
  /\ k = MaxK
  /\ normalize = TRUE
  /\ s = DefaultS
  /\ gamma = DefaultGamma
  /\ workers \in 2..MaxWorkers
  /\ pc = "call"
  /\ params = <<>>
  /\ wdates = <<>>
  /\ wn = <<>>
  /\ wB = <<>>
  /\ Bs = {}
  /\ B = EmptyMap
  /\ calls = EmptyMap
  /\ G = EmptyMap
  /\ Sigma = EmptyMap
  /\ sigma_pc = "idle"

NextPool ==
  \/ BurstnessScatter
  \/ \E i \in DOMAIN params : WorkerFeature(i)
  \/ \E i \in DOMAIN params : WorkerReturn(i)
  \/ BurstnessGather

SpecPool == InitPool /\ [][NextPool]_vars

\* feature_burstness_wrapper(param) run from the n-th feature of the
\* package to the last, on the dates list and the map B as they stand
RECURSIVE WrapperFrom(_, _, _, _)
WrapperFrom(p, dates, n, B0) ==
  IF n >= Len(p.features) THEN B0
  ELSE LET r == FeatureBurstness(p.feature_distributions[n + 1], dates,
                                 p.k, p.normalize, p.s, p.gamma)
       IN  WrapperFrom(p, r.dates, n + 1,
                       Update(B0, [f \in {p.features[n + 1]} |-> r.result]))

\* feature_burstness_wrapper(param): the map it returns for a package
FeatureBurstnessWrapper(p) == WrapperFrom(p, <<PadDate>>, 0, EmptyMap)

\* C14: the merge starts only when every package's loop has run to its
\* end and its map has been received; no merged map exists while the
\* pool runs and the returned map holds no part of a chunk without the
\* rest; whatever the interleaving and completion order, the returned
\* map is the union of the maps feature_burstness_wrapper computes for
\* the packages.
ScatterGather ==
  workers > 1 =>
    /\ pc = "pool" => B = EmptyMap
    /\ pc = "returned" =>
         /\ \A i \in DOMAIN params :
              /\ i \in Bs
              /\ wn[i] = Len(params[i].features)
              /\ wB[i] = FeatureBurstnessWrapper(params[i])
              /\ \/ RangeOf(params[i].features) \subseteq DOMAIN B
                 \/ RangeOf(params[i].features) \cap DOMAIN B = {}
         /\ \A f \in RangeOf(features) :
              LET holders == {i \in DOMAIN params :
                                f \in DOMAIN FeatureBurstnessWrapper(params[i])}
              IN  /\ f \in DOMAIN B <=> holders # {}
                  /\ \A i \in holders : B[f] = FeatureBurstnessWrapper(params[i])[f]
         /\ DOMAIN B \subseteq RangeOf(features)

\* C14's case: burstness has returned the merge of packages of which two
\* held two features each, with a series for a feature of each
ScatterGatherWitness ==
  /\ pc = "returned"
  /\ workers > 1
  /\ \E i, m \in DOMAIN params :
       /\ i # m
       /\ Len(params[i].features) >= 2
       /\ Len(params[m].features) >= 2
       /\ \E f \in DOMAIN wB[i] : wB[i][f].ok /\ wB[i][f].dates # <<>>
       /\ \E f \in DOMAIN wB[m] : wB[m][f].ok /\ wB[m][f].dates # <<>>
       /\ B # EmptyMap
====
